---- MODULE Spec2Model ----
(***************************************************************************)
(* Retail kiosk: catalog sync pipeline, embedding-update jobs, vector      *)
(* index reconciliation and hybrid search, modelled from                   *)
(* docs/plans/2026-01-20-frontend-core-implementation.md (backend tasks,   *)
(* QdrantService, SearchService), with the list share protocol behind     *)
(* frontend/src/pages/SyncPage.tsx.                                        *)
(***************************************************************************)
EXTENDS Integers, Sequences, FiniteSets, TLC

\* ------------------------------------------------------------- bounds
MaxFeedLen == 2
MaxSyncRuns == 2
MaxRaceRuns == 1
MaxJobs == 2
MaxSweeps == 1
MaxLost == 1
MaxLists == 3
MaxTime == 3

\* ---------------------------------------------------- program constants
SYNC_MAX_RETRIES == 3
EMBED_MAX_RETRIES == 3
EMBED_COUNTDOWN == 30

\* ------------------------------------------------------------- domains
SKUS == {"A", "B"}
Names == {"n1"}
Prices == {10, 12}
SlugLists == {<<"tools", "nope">>}
RequiredKeys == {"sku", "name", "price"}

\* Category table of the primary store: slug -> id (0: no such category).
CategoryIdOf(slug) == IF slug = "tools" THEN 1 ELSE 0

CategoryNameOf(id) == IF id = 1 THEN "Tools" ELSE "?"

\* One record of the feed's "products" list: a JSON object that holds any
\* subset of the required keys (a key it lacks raises KeyError when read).
FeedRecords ==
    [sku : SKUS, name : Names, price : Prices, categories : SlugLists]
    \cup [name : Names, price : Prices, categories : SlugLists]
    \cup [sku : SKUS, price : Prices, categories : SlugLists]
    \cup [sku : SKUS, name : Names, categories : SlugLists]

JobIds == 1..MaxJobs

VARIABLES
    db,           \* primary store, committed rows: SKU -> product
    sess,         \* the sync run's open session: SKU -> pending product
    syncPc,       \* position of sync_product_data
    processed,    \* processed_skus of the run (while queuing: those not yet queued)
    syncRetries,  \* request.retries of the sync task
    syncRuns,     \* sync tasks triggered so far
    jobs,         \* update_product_embeddings tasks: id -> record
    lost,         \* deliveries repeated after a lost worker
    collection,   \* the "products" collection exists in Qdrant
    points,       \* Qdrant points: set of [id, vector, payload]
    sweepPc,      \* position of cleanup_stale_vectors
    db_skus,      \* its snapshot of the primary store's SKUs
    qdrant_skus,  \* its enumeration of the index
    stale,        \* stale SKUs not yet deleted
    sweeps,       \* sweeps triggered so far
    syncErr,      \* the error the sync task logged last
    searchReq,    \* the search request being served
    searchOut,    \* what search_products gave its caller
    searchWait,   \* where a running search call stands, and for how long
    lists,        \* shopping lists: list id -> [owner, items]
    codes,        \* share records: code -> [list, expires_at]
    now,          \* the clock share codes expire against
    syncOut,      \* what the last sync of a code gave its caller
    client,       \* the syncing device: its list store and error banner
    session,      \* sessionStore: sessionId, listId, lastActive, showContinuePrompt
    cart,         \* listStore.currentList: items and counters (client.list is its id)
    pending,      \* list requests sent, each with the currentList it captured
    searchStore,  \* searchStore: query, results, and the searches in flight
    modal,        \* ShareListModal: isOpen, shareData, isLoading, error, posts sent
    scanner       \* QRScanner: isActive, scannerRef, and the scanners made

pvars == <<db, sess, syncPc, processed, syncRetries, syncRuns, syncErr>>
jvars == <<jobs, lost>>
qvars == <<collection, points>>
svars == <<sweepPc, db_skus, qdrant_skus, stale, sweeps>>
lvars == <<lists, codes, now, syncOut, client>>
gvars == <<cart, pending, searchStore, modal, scanner>>
fvars == <<session, gvars>>
xvars == <<searchReq, searchOut, searchWait, lvars, fvars>>
vars == <<pvars, jvars, qvars, svars, xvars>>

\* ------------------------------------------------------ primary store
EmptyMap == [s \in {} |-> 0]

\* What a SELECT inside the session sees: its own pending rows over the
\* committed ones.
Merge(d, ss) ==
    [s \in DOMAIN d \cup DOMAIN ss |-> IF s \in DOMAIN ss THEN ss[s] ELSE d[s]]

EverySku(d) == DOMAIN d

\* Product.is_active == True
ActiveSkus(d) == {s \in DOMAIN d : d[s].active}

CommitAlways(d, ss, raised) == Merge(d, ss)

\* get_sync_db_session: commit when the body returns, rollback when it raises.
\* The value is the committed store after the with-block.
get_sync_db_session(d, ss, raised) == IF raised THEN d ELSE Merge(d, ss)

RECURSIVE ResolveSlugs(_)
ResolveSlugs(slugs) ==
    IF slugs = <<>> THEN {}
    ELSE LET id == CategoryIdOf(Head(slugs))
         IN (IF id # 0 THEN {id} ELSE {}) \cup ResolveSlugs(Tail(slugs))

\* The record has every key the loop body subscripts.
RecordValid(rec) == RequiredKeys \subseteq DOMAIN rec

\* Body of the loop for one record: find or create, set the fields, replace
\* the categories when the record lists any.
UpsertRecord(view, rec) ==
    [name |-> rec.name,
     price |-> rec.price,
     active |-> TRUE,
     cats |-> IF rec.categories # <<>> THEN ResolveSlugs(rec.categories)
              ELSE IF rec.sku \in DOMAIN view THEN view[rec.sku].cats ELSE {}]

\* ------------------------------------------------- embedding service
\* get_product_text: the name, then the description when there is one (the
\* products of this model carry none), then the category names.
get_product_text(product, category_names) ==
    IF category_names = {} THEN <<product.name>>
    ELSE <<product.name, "Categories", category_names>>

\* generate_embedding: the model's encoding, a function of the text alone.
generate_embedding(text) == <<"emb", text>>

\* ---------------------------------------------------------- Qdrant
FreshPointId(sku) == <<"uuid", sku, Cardinality(points)>>

\* _sku_to_point_id: the MD5 digest of the SKU, laid out as a UUID.
sku_to_point_id(sku) == <<"md5", sku>>

AppendPoint(pts, sku, embedding, payload) ==
    pts \cup {[id |-> sku_to_point_id(sku), vector |-> embedding,
                payload |-> [name |-> payload.name, price |-> payload.price,
                             category_ids |-> payload.category_ids, sku |-> sku]]}

upsert_product(pts, sku, embedding, payload) ==
    LET point_id == sku_to_point_id(sku)
        point_payload == [name |-> payload.name, price |-> payload.price,
                          category_ids |-> payload.category_ids, sku |-> sku]
    IN {p \in pts : p.id # point_id}
       \cup {[id |-> point_id, vector |-> embedding, payload |-> point_payload]}

delete_product(pts, sku) == {p \in pts : p.id # sku_to_point_id(sku)}

get_all_skus(pts) == {p.payload.sku : p \in pts}

\* The point _update_single_product_embedding writes for a product row.
PayloadOf(product) ==
    [name |-> product.name,
     price |-> IF product.price # 0 THEN product.price ELSE 0,
     category_ids |-> product.cats]

update_single_product_embedding(pts, sku, product) ==
    LET category_names == {CategoryNameOf(c) : c \in product.cats}
        text == get_product_text(product, category_names)
        embedding == generate_embedding(text)
    IN upsert_product(pts, sku, embedding, PayloadOf(product))

\* Cosine similarity of two embeddings, in percent.  The encoder is opaque:
\* equal texts are closest, texts that share their first part are close.
Similarity(a, b) ==
    IF a = b THEN 100 ELSE IF a[2][1] = b[2][1] THEN 90 ELSE 40

\* The must-conditions search builds from its arguments: a price bound is
\* applied when it is given, the categories when the list is non-empty.
PassesFilter(payload, f) ==
    /\ "min_price" \in DOMAIN f => payload.price >= f.min_price
    /\ "max_price" \in DOMAIN f => payload.price <= f.max_price
    /\ "category_id" \in DOMAIN f => f.category_id \in payload.category_ids

SkuRank(s) == CASE s = "A" -> 1 [] s = "B" -> 2 [] OTHER -> 3

\* A set of <<sku, score>> hits as a sequence, best score first; equal scores
\* in SKU order.
Better(h, g) == h[2] > g[2] \/ (h[2] = g[2] /\ SkuRank(h[1]) < SkuRank(g[1]))

RECURSIVE Ranked(_)
Ranked(hits) ==
    IF hits = {} THEN <<>>
    ELSE LET top == CHOOSE h \in hits : \A g \in hits \ {h} : Better(h, g)
         IN <<top>> \o Ranked(hits \ {top})

\* The position of a row in the order the store returned the rows.
RowRank(order, s) == CHOOSE i \in 1..Len(order) : order[i] = s

\* list.sort(key=score, reverse=True) over the rows as the store returned
\* them: best score first; the sort is stable, so rows of equal score stay in
\* the order the store returned them.
RECURSIVE SortByScore(_, _)
SortByScore(hits, order) ==
    IF hits = {} THEN <<>>
    ELSE LET top == CHOOSE h \in hits : \A g \in hits \ {h} :
                      \/ h[2] > g[2]
                      \/ h[2] = g[2] /\ RowRank(order, h[1]) < RowRank(order, g[1])
         IN <<top>> \o SortByScore(hits \ {top}, order)

Prefix(seq, n) == SubSeq(seq, 1, IF n < Len(seq) THEN n ELSE Len(seq))

\* QdrantService.search: the best `limit` points that pass the filter.
qdrant_search(pts, query_embedding, limit, f) ==
    Prefix(Ranked({<<p.payload.sku, Similarity(query_embedding, p.vector)>> :
                     p \in {q \in pts : PassesFilter(q.payload, f)}}),
           limit)

\* ---------------------------------------------------------- job records
NoJob ==
    [sku |-> "", st |-> "none", retries |-> 0, fetched |-> <<>>, delays |-> <<>>,
     err |-> "", lost_at |-> ""]

\* err: the exception of the run that ended last, until the task runs again.
\* lost_at: where the task stood when its worker was lost.

NewJob(sku) == [NoJob EXCEPT !.sku = sku, !.st = "queued"]

Terminal == {"done", "failed", "not_found"}
InFlight == {"create", "fetch", "upsert", "ack"}

\* Celery's Task.retry: schedule the task again while request.retries is
\* below max_retries, else re-raise the error (the task fails).
RetryAlways(job, exc, countdown) ==
    [job EXCEPT !.st = "queued", !.retries = @ + 1, !.fetched = <<>>,
                !.err = exc, !.delays = Append(@, countdown)]

RetryJob(job, exc, countdown) ==
    IF job.retries < EMBED_MAX_RETRIES
    THEN [job EXCEPT !.st = "queued", !.retries = @ + 1, !.fetched = <<>>,
                     !.err = exc, !.delays = Append(@, countdown)]
    ELSE [job EXCEPT !.st = "failed", !.fetched = <<>>, !.err = exc]

\* ------------------------------------------------------ SearchService
Queries == {"", " ", "n1", "zz"}

FilterSets ==
    {EmptyMap} \cup [min_price : {11}] \cup [max_price : {11}]
    \cup [category_id : {1}]

SemanticFaults == {"none", "EmbeddingUnavailable", "VectorIndexUnavailable"}

\* The SELECT of the hydration step has no ORDER BY: the store returns the
\* rows in an order of its own choosing, call by call.
RowOrders == {<<"A", "B">>, <<"B", "A">>}

Requests ==
    [query : Queries, filters : FilterSets, skip : {0, 1}, limit : {1, 2},
     fault : SemanticFaults, store_down : BOOLEAN, row_order : RowOrders]

NoRequest ==
    [query |-> "", filters |-> EmptyMap, skip |-> 0, limit |-> 1,
     fault |-> "none", store_down |-> FALSE, row_order |-> <<"A", "B">>]

NoOutcome ==
    [status |-> "none", path |-> "", results |-> <<>>, total |-> 0, error |-> ""]

Raised(exc) == [raised |-> TRUE, exc |-> exc, results |-> <<>>, total |-> 0]

Returned(results, total) ==
    [raised |-> FALSE, exc |-> "", results |-> results, total |-> total]

Page(seq, skip, limit) ==
    SubSeq(seq, skip + 1, IF skip + limit < Len(seq) THEN skip + limit ELSE Len(seq))

SwallowErrors(d, pts, up, req) ==
    IF req.fault # "none" \/ ~up \/ req.store_down THEN Returned(<<>>, 0)
    ELSE LET hits == qdrant_search(pts, generate_embedding(<<req.query>>),
                                   req.limit + req.skip, req.filters)
             scored == SortByScore({h \in {hits[i] : i \in 1..Len(hits)} :
                                      h[1] \in ActiveSkus(d)}, req.row_order)
         IN Returned(Page(scored, req.skip, req.limit), Len(scored))

\* _semantic_search: embed the query, search Qdrant with limit + skip, read the
\* active products with the returned SKUs, pair them with their scores, sort
\* by score, cut the page.  Nothing in it catches an error.
semantic_search(d, pts, up, req) ==
    IF req.fault = "EmbeddingUnavailable" THEN Raised("EmbeddingUnavailable")
    ELSE IF req.fault = "VectorIndexUnavailable" \/ ~up
    THEN Raised("VectorIndexUnavailable")
    ELSE LET hits == qdrant_search(pts, generate_embedding(<<req.query>>),
                                   req.limit + req.skip, req.filters)
         IN IF hits = <<>> THEN Returned(<<>>, 0)
            ELSE IF req.store_down THEN Raised("OperationalError")
            ELSE LET scored == SortByScore({h \in {hits[i] : i \in 1..Len(hits)} :
                                              h[1] \in ActiveSkus(d)}, req.row_order)
                 IN Returned(Page(scored, req.skip, req.limit), Len(scored))

\* The keyword path: active products whose name holds the query, under the
\* same filters and pagination, scored by rank.
NameHolds(name, query) == query = name \/ (query = "n" /\ name = "n1")

keyword_search(d, req) ==
    IF req.store_down THEN Raised("OperationalError")
    ELSE LET found == {s \in ActiveSkus(d) :
                         /\ NameHolds(d[s].name, req.query)
                         /\ PassesFilter(PayloadOf(d[s]), req.filters)}
             ranked == Ranked({<<s, 100>> : s \in found})
         IN Returned(Page(ranked, req.skip, req.limit), Len(ranked))

IsBlank(query) == query \in {"", " "}

SearchAnyQuery(d, pts, up, req) ==
    LET sem == semantic_search(d, pts, up, req)
    IN IF ~sem.raised
       THEN [status |-> "ok", path |-> "semantic", results |-> sem.results,
             total |-> sem.total, error |-> ""]
       ELSE LET kw == keyword_search(d, req)
            IN IF ~kw.raised
               THEN [status |-> "ok", path |-> "keyword", results |-> kw.results,
                     total |-> kw.total, error |-> ""]
               ELSE [status |-> "error", path |-> "", results |-> <<>>,
                     total |-> 0, error |-> "SearchUnavailable"]

\* search_products: nothing for a blank query; the semantic path; the keyword
\* path when the semantic path raised; an error only when both raised.
search_products(d, pts, up, req) ==
    IF IsBlank(req.query)
    THEN [status |-> "ok", path |-> "blank", results |-> <<>>, total |-> 0, error |-> ""]
    ELSE LET sem == semantic_search(d, pts, up, req)
         IN IF ~sem.raised
            THEN [status |-> "ok", path |-> "semantic", results |-> sem.results,
                  total |-> sem.total, error |-> ""]
            ELSE LET kw == keyword_search(d, req)
                 IN IF ~kw.raised
                    THEN [status |-> "ok", path |-> "keyword", results |-> kw.results,
                          total |-> kw.total, error |-> ""]
                    ELSE [status |-> "error", path |-> "", results |-> <<>>,
                          total |-> 0, error |-> "SearchUnavailable"]

\* No search call is running.
NoWait == [step |-> "idle", elapsed |-> 0]

NoSyncOut == [status |-> "none", list |-> 0, code |-> "", at |-> 0, target |-> ""]

NoClient == [list |-> 0, error |-> "", page |-> "sync"]

\* No list has been made or shared, no device is syncing.
NoSharing ==
    /\ lists = EmptyMap
    /\ codes = EmptyMap
    /\ now = 0
    /\ syncOut = NoSyncOut
    /\ client = NoClient

NoSession == [sessionId |-> "", listId |-> 0, lastActive |-> 0, showContinuePrompt |-> FALSE]

\* currentList is null.
NoCart == [items |-> EmptyMap, total_items |-> 0, unique_items |-> 0]

\* results is null.
NoResults == [held |-> FALSE, total |-> 0, items |-> <<>>]

\* issued, latest: the searches sent so far and the query of the last one;
\* inflight: the searches sent and not yet answered.
NoSearchStore ==
    [query |-> "", results |-> NoResults, isLoading |-> FALSE, error |-> "",
     issued |-> 0, latest |-> "", inflight |-> {}]

\* posts, inflight: the share requests sent and those not yet answered;
\* retries: the presses of Try Again.
NoModal ==
    [isOpen |-> FALSE, shareData |-> "", isLoading |-> FALSE, error |-> "",
     posts |-> 0, inflight |-> 0, retries |-> 0]

\* ref: scannerRef.current, an index into cams, 0 for null; cams: every
\* Html5Qrcode made, each "starting", "running", "stopped" or "failed";
\* stops: the stopScanner calls waiting at their await.
NoScanner == [isActive |-> FALSE, ref |-> 0, cams |-> <<>>, stops |-> 0]

\* The browser app as it loads: no session, no list, nothing in flight.
NoFrontend ==
    /\ session = NoSession
    /\ cart = NoCart
    /\ pending = <<>>
    /\ searchStore = NoSearchStore
    /\ modal = NoModal
    /\ scanner = NoScanner

\* One search request, served against the stores as they are.
SearchCall ==
    /\ searchOut.status = "none"
    /\ searchOut' = search_products(db, points, collection, searchReq)
    /\ UNCHANGED <<pvars, jvars, qvars, svars, fvars, searchReq, searchWait, lvars>>

\* The broker's queue is bounded by the job slots of the model: a finished
\* task's slot is taken by the next message.
FreeSlots == {j \in JobIds : jobs[j].st \in Terminal \cup {"none"}}

MinOf(S) == CHOOSE x \in S : \A y \in S : x <= y

\* update_product_embeddings.delay(sku)
Delay(sku) == [jobs EXCEPT ![MinOf(FreeSlots)] = NewJob(sku)]

Init ==
    /\ db = EmptyMap
    /\ sess = EmptyMap
    /\ syncPc = "idle"
    /\ processed = <<>>
    /\ syncRetries = 0
    /\ syncRuns = 0
    /\ syncErr = ""
    /\ jobs = [j \in JobIds |-> NoJob]
    /\ lost = 0
    /\ collection = FALSE
    /\ points = {}
    /\ sweepPc = "idle"
    /\ db_skus = {}
    /\ qdrant_skus = {}
    /\ stale = {}
    /\ sweeps = 0
    /\ searchReq = NoRequest
    /\ searchOut = NoOutcome
    /\ searchWait = NoWait
    /\ NoFrontend
    /\ NoSharing

\* ------------------------------------------------ sync_product_data
\* trigger_sync_products: sync_product_data.delay(file_path)
SyncTrigger(maxRuns) ==
    /\ syncPc \in {"idle", "done", "failed"}
    /\ syncRuns < maxRuns
    /\ syncPc' = "queued"
    /\ syncRetries' = 0
    /\ syncRuns' = syncRuns + 1
    /\ UNCHANGED <<db, sess, processed, syncErr, jvars, qvars, svars, xvars>>

\* except Exception: raise self.retry(exc=exc, countdown=60)
SyncRaise(exc) ==
    /\ syncErr' = exc
    /\ IF syncRetries < SYNC_MAX_RETRIES
       THEN syncPc' = "queued" /\ syncRetries' = syncRetries + 1
       ELSE syncPc' = "failed" /\ UNCHANGED syncRetries

\* The task starts: the file is read and parsed, data.get("products", [])
\* is taken, the session is opened.
SyncStart ==
    /\ syncPc = "queued"
    /\ \E shape \in {"products", "no_products_key", "invalid_json"} :
         CASE shape = "products" ->
                /\ syncPc' = "upserting"
                /\ UNCHANGED <<syncRetries, syncErr>>
           [] shape = "no_products_key" ->
                /\ syncPc' = "commit_empty"
                /\ UNCHANGED <<syncRetries, syncErr>>
           [] OTHER -> SyncRaise("JSONDecodeError")
    /\ sess' = EmptyMap
    /\ processed' = <<>>
    /\ UNCHANGED <<db, syncRuns, jvars, qvars, svars, xvars>>

\* One turn of the loop over products_data.  A record that lacks a key the
\* body subscripts raises KeyError out of the with-block.
SyncRecord ==
    /\ syncPc = "upserting"
    /\ Len(processed) < MaxFeedLen
    /\ \E rec \in FeedRecords :
         IF RecordValid(rec)
         THEN /\ sess' = [s \in DOMAIN sess \cup {rec.sku} |->
                            IF s = rec.sku THEN UpsertRecord(Merge(db, sess), rec)
                            ELSE sess[s]]
              /\ processed' = Append(processed, rec.sku)
              /\ UNCHANGED <<db, syncPc, syncRetries, syncErr>>
         ELSE /\ db' = get_sync_db_session(db, sess, TRUE)
              /\ sess' = EmptyMap
              /\ UNCHANGED processed
              /\ SyncRaise("KeyError")
    /\ UNCHANGED <<syncRuns, jvars, qvars, svars, xvars>>

\* The loop ends and the with-block commits.
SyncCommit ==
    /\ syncPc \in {"upserting", "commit_empty"}
    /\ db' = get_sync_db_session(db, sess, FALSE)
    /\ sess' = EmptyMap
    /\ syncPc' = "queuing"
    /\ UNCHANGED <<processed, syncRetries, syncRuns, syncErr, jvars, qvars, svars, xvars>>

SyncEnqueueInLoop ==
    /\ syncPc = "upserting"
    /\ processed # <<>>
    /\ FreeSlots # {}
    /\ jobs' = Delay(processed[Len(processed)])
    /\ UNCHANGED <<pvars, lost, qvars, svars, xvars>>

\* for sku in processed_skus: update_product_embeddings.delay(sku)
SyncEnqueue ==
    /\ syncPc = "queuing"
    /\ processed # <<>>
    /\ FreeSlots # {}
    /\ jobs' = Delay(Head(processed))
    /\ processed' = Tail(processed)
    /\ UNCHANGED <<db, sess, syncPc, syncRetries, syncRuns, syncErr, lost, qvars, svars, xvars>>

SyncFinish ==
    /\ syncPc = "queuing"
    /\ processed = <<>>
    /\ syncPc' = "done"
    /\ UNCHANGED <<db, sess, processed, syncRetries, syncRuns, syncErr, jvars, qvars, svars, xvars>>

\* ------------------------------------------ update_product_embeddings
\* A worker takes the task; ensure_collection asks collection_exists.
JobStart(j) ==
    /\ jobs[j].st = "queued"
    /\ jobs' = [jobs EXCEPT ![j].st = IF collection THEN "fetch" ELSE "create",
                             ![j].err = ""]
    /\ UNCHANGED <<pvars, lost, qvars, svars, xvars>>

\* ensure_collection, after collection_exists returned False: create_collection.
\* Qdrant rejects the creation of a collection that exists, and the error
\* reaches the task's except clause.
ensure_collection_create(j) ==
    IF ~collection
    THEN /\ collection' = TRUE
         /\ jobs' = [jobs EXCEPT ![j].st = "fetch"]
    ELSE /\ jobs' = [jobs EXCEPT ![j] = RetryJob(@, "CollectionExists", EMBED_COUNTDOWN)]
         /\ UNCHANGED collection

JobCreate(j) ==
    /\ jobs[j].st = "create"
    /\ ensure_collection_create(j)
    /\ UNCHANGED <<pvars, lost, points, svars, xvars>>

\* select(Product).where(Product.sku == sku), then the text and the embedding
\* of the row that was read.
JobFetch(j) ==
    /\ jobs[j].st = "fetch"
    /\ jobs' = [jobs EXCEPT ![j] =
                  IF jobs[j].sku \in DOMAIN db
                  THEN [@ EXCEPT !.st = "upsert", !.fetched = <<db[jobs[j].sku]>>]
                  ELSE [@ EXCEPT !.st = "not_found"]]
    /\ UNCHANGED <<pvars, lost, qvars, svars, xvars>>

\* generate_embedding raises (the model is unavailable).
JobEmbedFail(j) ==
    /\ jobs[j].st = "fetch"
    /\ jobs[j].sku \in DOMAIN db
    /\ jobs' = [jobs EXCEPT ![j] = RetryJob(@, "EmbeddingUnavailable", EMBED_COUNTDOWN)]
    /\ UNCHANGED <<pvars, lost, qvars, svars, xvars>>

\* qdrant_service.upsert_product(...)
JobUpsert(j) ==
    /\ jobs[j].st = "upsert"
    /\ points' = update_single_product_embedding(points, jobs[j].sku, jobs[j].fetched[1])
    /\ jobs' = [jobs EXCEPT ![j].st = "ack"]
    /\ UNCHANGED <<pvars, lost, collection, svars, xvars>>

\* The task returns {"status": "updated"} and the message is acknowledged
\* (task_acks_late).
JobAck(j) ==
    /\ jobs[j].st = "ack"
    /\ jobs' = [jobs EXCEPT ![j].st = "done", ![j].fetched = <<>>]
    /\ UNCHANGED <<pvars, lost, qvars, svars, xvars>>

\* The worker is lost before the acknowledgement: the broker delivers the
\* message again (task_reject_on_worker_lost).
WorkerLost(j) ==
    /\ jobs[j].st \in InFlight
    /\ lost < MaxLost
    /\ lost' = lost + 1
    /\ jobs' = [jobs EXCEPT ![j].st = "queued", ![j].fetched = <<>>,
                             ![j].lost_at = jobs[j].st]
    /\ UNCHANGED <<pvars, qvars, svars, xvars>>

\* ------------------------------------------------ cleanup_stale_vectors
SelectActiveSkus(d) == ActiveSkus(d)

\* select(Product.sku): every row of the products table.
select_product_skus(d) == DOMAIN d

AllKeysStale(keys, skus) == keys

\* stale_skus = qdrant_skus - db_skus
StaleSkus(keys, skus) == keys \ skus

\* db_skus = set(select(Product.sku))
SweepSnapshot ==
    /\ sweepPc \in {"idle", "done", "failed"}
    /\ sweeps < MaxSweeps
    /\ sweeps' = sweeps + 1
    /\ db_skus' = select_product_skus(db)
    /\ qdrant_skus' = {}
    /\ stale' = {}
    /\ sweepPc' = "enumerate"
    /\ UNCHANGED <<pvars, jvars, qvars, xvars>>

\* qdrant_skus = get_all_skus(); stale_skus = qdrant_skus - db_skus.  The
\* scroll raises when the collection does not exist, and the task fails.
SweepEnumerate ==
    /\ sweepPc = "enumerate"
    /\ IF collection
       THEN /\ qdrant_skus' = get_all_skus(points)
            /\ stale' = StaleSkus(get_all_skus(points), db_skus)
            /\ sweepPc' = "delete"
       ELSE /\ sweepPc' = "failed"
            /\ UNCHANGED <<qdrant_skus, stale>>
    /\ UNCHANGED <<pvars, jvars, qvars, db_skus, sweeps, xvars>>

\* for sku in stale_skus: qdrant_service.delete_product(sku)
SweepDelete ==
    /\ sweepPc = "delete"
    /\ \E s \in stale :
         /\ points' = delete_product(points, s)
         /\ stale' = stale \ {s}
    /\ UNCHANGED <<pvars, jvars, collection, sweepPc, db_skus, qdrant_skus, sweeps, xvars>>

SweepFinish ==
    /\ sweepPc = "delete"
    /\ stale = {}
    /\ sweepPc' = "done"
    /\ UNCHANGED <<pvars, jvars, qvars, db_skus, qdrant_skus, stale, sweeps, xvars>>

\* trigger_update_embeddings: update_product_embeddings.delay(sku)
JobTrigger(sku) ==
    /\ FreeSlots # {}
    /\ jobs' = Delay(sku)
    /\ UNCHANGED <<pvars, lost, qvars, svars, xvars>>

\* ------------------------------------------------------ specifications
SyncStep ==
    \/ SyncStart
    \/ SyncRecord
    \/ SyncCommit
    \/ SyncEnqueue
    \/ SyncFinish

JobStep(j) ==
    \/ JobStart(j)
    \/ JobCreate(j)
    \/ JobFetch(j)
    \/ JobUpsert(j)
    \/ JobAck(j)

JobFault(j) ==
    \/ JobEmbedFail(j)
    \/ WorkerLost(j)

SweepStep ==
    \/ SweepSnapshot
    \/ SweepEnumerate
    \/ SweepDelete
    \/ SweepFinish

\* The sync task alone: no worker takes the embedding tasks it queues.
NextSync ==
    \/ SyncTrigger(MaxSyncRuns)
    \/ SyncStep

SpecSync == Init /\ [][NextSync]_vars

\* Sync, embedding workers and the sweep, concurrently, with no faults.
NextRace ==
    \/ SyncTrigger(MaxRaceRuns)
    \/ SyncStep
    \/ \E j \in JobIds : JobStep(j)
    \/ SweepStep

SpecRace == Init /\ [][NextRace]_vars

\* Catalogs a finished sync leaves in the primary store.
Products == [name : Names, price : Prices, active : {TRUE}, cats : {{1}}]

\* Embedding workers over a synced catalog (product A, no product B), tasks
\* queued by the admin route, with failing embeddings and lost workers.
JobCatalogs == [{"A"} -> {p \in Products : p.price = 10}]

InitJobs ==
    /\ db \in JobCatalogs
    /\ sess = EmptyMap
    /\ syncPc = "idle"
    /\ processed = <<>>
    /\ syncRetries = 0
    /\ syncRuns = 0
    /\ syncErr = ""
    /\ jobs = [j \in JobIds |-> NoJob]
    /\ lost = 0
    /\ collection = FALSE
    /\ points = {}
    /\ sweepPc = "idle"
    /\ db_skus = {}
    /\ qdrant_skus = {}
    /\ stale = {}
    /\ sweeps = 0
    /\ searchReq = NoRequest
    /\ searchOut = NoOutcome
    /\ searchWait = NoWait
    /\ NoFrontend
    /\ NoSharing

NextJobs ==
    \/ \E sku \in SKUS : JobTrigger(sku)
    \/ \E j \in JobIds : JobStep(j)
    \/ \E j \in JobIds : JobFault(j)

SpecJobs == InitJobs /\ [][NextJobs]_vars

\* The sweep alone over a primary store and an index that earlier syncs,
\* product removals and deactivations left behind.
SweepSKUS == {"A", "B", "C"}

SweepProducts == [name : Names, price : {10}, active : BOOLEAN, cats : {{1}}]

SweepCatalogs == UNION {[S -> SweepProducts] : S \in SUBSET SweepSKUS}

IndexOver(S) ==
    {update_single_product_embedding({}, s,
        [name |-> "n1", price |-> 10, active |-> TRUE, cats |-> {1}])
       : s \in S}

InitSweep ==
    /\ db \in SweepCatalogs
    /\ sess = EmptyMap
    /\ syncPc = "idle"
    /\ processed = <<>>
    /\ syncRetries = 0
    /\ syncRuns = 0
    /\ syncErr = ""
    /\ jobs = [j \in JobIds |-> NoJob]
    /\ lost = 0
    /\ collection \in BOOLEAN
    /\ \E S \in SUBSET SweepSKUS :
         points = IF collection THEN UNION IndexOver(S) ELSE {}
    /\ sweepPc = "idle"
    /\ db_skus = {}
    /\ qdrant_skus = {}
    /\ stale = {}
    /\ sweeps = 0
    /\ searchReq = NoRequest
    /\ searchOut = NoOutcome
    /\ searchWait = NoWait
    /\ NoFrontend
    /\ NoSharing

NextSweep == SweepStep

SpecSweep == InitSweep /\ [][NextSweep]_vars

\* Search requests against a primary store and an index that may disagree
\* (vectors not yet written, vectors of removed or inactive products).
SearchProducts == [name : Names, price : Prices, active : BOOLEAN, cats : {{}, {1}}]

SearchCatalogs == UNION {[S -> SearchProducts] : S \in SUBSET SKUS}

SearchIndexes ==
    {UNION {update_single_product_embedding({}, s, f[s]) : s \in DOMAIN f} :
       f \in UNION {[S -> Products] : S \in SUBSET SKUS}}

InitSearch ==
    /\ db \in SearchCatalogs
    /\ sess = EmptyMap
    /\ syncPc = "idle"
    /\ processed = <<>>
    /\ syncRetries = 0
    /\ syncRuns = 0
    /\ syncErr = ""
    /\ jobs = [j \in JobIds |-> NoJob]
    /\ lost = 0
    /\ collection \in BOOLEAN
    /\ points \in (IF collection THEN SearchIndexes ELSE {{}})
    /\ sweepPc = "idle"
    /\ db_skus = {}
    /\ qdrant_skus = {}
    /\ stale = {}
    /\ sweeps = 0
    /\ searchReq \in Requests
    /\ searchOut = NoOutcome
    /\ searchWait = NoWait
    /\ NoFrontend
    /\ NoSharing

NextSearch == SearchCall

SpecSearch == InitSearch /\ [][NextSearch]_vars

\* The periodic schedule of the sweep: when a sweep has ended the next one
\* becomes due.
SweepPeriod ==
    /\ sweepPc \in {"done", "failed"}
    /\ sweeps > 0
    /\ sweeps' = 0
    /\ sweepPc' = "idle"
    /\ UNCHANGED <<pvars, jvars, qvars, db_skus, qdrant_skus, stale, xvars>>

\* A catalog that has stopped changing: a sync has committed active products
\* A and B and queued their embedding tasks; the index may hold the vector of
\* a removed product C.  Workers run the tasks, embeddings may fail, and the
\* sweep runs again and again.
SettledCatalogs == [SKUS -> {pr \in Products : pr.price = 10}]

InitSettled ==
    /\ db \in SettledCatalogs
    /\ sess = EmptyMap
    /\ syncPc = "done"
    /\ processed = <<>>
    /\ syncRetries = 0
    /\ syncRuns = 1
    /\ syncErr = ""
    /\ jobs = [j \in JobIds |-> NewJob(IF j = 1 THEN "A" ELSE "B")]
    /\ lost = 0
    /\ collection \in BOOLEAN
    /\ points = IF collection THEN UNION IndexOver({"C"}) ELSE {}
    /\ sweepPc = "idle"
    /\ db_skus = {}
    /\ qdrant_skus = {}
    /\ stale = {}
    /\ sweeps = 0
    /\ searchReq = NoRequest
    /\ searchOut = NoOutcome
    /\ searchWait = NoWait
    /\ NoFrontend
    /\ NoSharing

NextSettled ==
    \/ \E j \in JobIds : JobStep(j)
    \/ \E j \in JobIds : JobEmbedFail(j)
    \/ SweepStep
    \/ SweepPeriod

\* Workers keep taking tasks and the sweep keeps running; a failing embedding
\* is a fault and is not forced.
SpecSettled ==
    /\ InitSettled
    /\ [][NextSettled]_vars
    /\ \A j \in JobIds : WF_vars(JobStep(j))
    /\ WF_vars(SweepStep \/ SweepPeriod)

\* The same search called again while nothing else runs: same query, filters,
\* skip and limit; the store returns the rows in an order of its choosing.
SearchRepeat ==
    /\ searchOut.status # "none"
    /\ \E o \in RowOrders :
         /\ searchReq' = [searchReq EXCEPT !.row_order = o]
         /\ searchOut' = search_products(db, points, collection, searchReq')
    /\ UNCHANGED <<pvars, jvars, qvars, svars, fvars, searchWait, lvars>>

\* Repeated searches over a catalog that does not change, with the index and
\* both stores up.
InitPaging ==
    /\ db \in [SKUS -> {pr \in SearchProducts : pr.active}]
    /\ sess = EmptyMap
    /\ syncPc = "idle"
    /\ processed = <<>>
    /\ syncRetries = 0
    /\ syncRuns = 0
    /\ syncErr = ""
    /\ jobs = [j \in JobIds |-> NoJob]
    /\ lost = 0
    /\ collection = TRUE
    /\ points \in SearchIndexes
    /\ sweepPc = "idle"
    /\ db_skus = {}
    /\ qdrant_skus = {}
    /\ stale = {}
    /\ sweeps = 0
    /\ searchReq \in {r \in Requests : r.fault = "none" /\ ~r.store_down}
    /\ searchOut = NoOutcome
    /\ searchWait = NoWait
    /\ NoFrontend
    /\ NoSharing

NextPaging ==
    \/ SearchCall
    \/ SearchRepeat

SpecPaging == InitPaging /\ [][NextPaging]_vars

\* The same query and filters asked again for another page or page size.
SearchOtherPage ==
    /\ searchOut.status # "none"
    /\ \E skip \in {0, 1} : \E limit \in {1, 2} :
         /\ searchReq' = [searchReq EXCEPT !.skip = skip, !.limit = limit]
         /\ searchOut' = search_products(db, points, collection, searchReq')
    /\ UNCHANGED <<pvars, jvars, qvars, svars, fvars, searchWait, lvars>>

NextTotals ==
    \/ SearchCall
    \/ SearchOtherPage

SpecTotals == InitPaging /\ [][NextTotals]_vars

\* ------------------------------------------- a search call, step by step
\* The bounded time the semantic path is allowed, in clock ticks.
SemanticTimeout == 2

\* search_products is called: a blank query returns at once, any other enters
\* _semantic_search, whose first step is generate_embedding(query).
SearchEnter ==
    /\ searchWait.step = "idle"
    /\ searchOut.status = "none"
    /\ IF IsBlank(searchReq.query)
       THEN /\ searchOut' = search_products(db, points, collection, searchReq)
            /\ searchWait' = [searchWait EXCEPT !.step = "returned"]
       ELSE /\ searchWait' = [searchWait EXCEPT !.step = "embedding"]
            /\ UNCHANGED searchOut
    /\ UNCHANGED <<pvars, jvars, qvars, svars, fvars, searchReq, lvars>>

\* generate_embedding returns, or raises and the call goes on to the keyword
\* path; after it the call is in qdrant_service.search.
EmbedReturns ==
    /\ searchWait.step = "embedding"
    /\ IF searchReq.fault = "EmbeddingUnavailable"
       THEN /\ searchOut' = search_products(db, points, collection, searchReq)
            /\ searchWait' = [searchWait EXCEPT !.step = "returned"]
       ELSE /\ searchWait' = [searchWait EXCEPT !.step = "qdrant"]
            /\ UNCHANGED searchOut
    /\ UNCHANGED <<pvars, jvars, qvars, svars, fvars, searchReq, lvars>>

\* qdrant_service.search returns or raises; the rest of the call runs and the
\* caller has its outcome.
QdrantReturns ==
    /\ searchWait.step = "qdrant"
    /\ searchOut' = search_products(db, points, collection, searchReq)
    /\ searchWait' = [searchWait EXCEPT !.step = "returned"]
    /\ UNCHANGED <<pvars, jvars, qvars, svars, fvars, searchReq, lvars>>

\* Time passes while the call is inside generate_embedding or
\* qdrant_service.search.  Both are plain blocking calls made without a
\* timeout: nothing in the call looks at the clock.
WaitTick ==
    /\ searchWait.step \in {"embedding", "qdrant"}
    /\ searchWait.elapsed <= SemanticTimeout
    /\ searchWait' = [searchWait EXCEPT !.elapsed = @ + 1]
    /\ UNCHANGED <<pvars, jvars, qvars, svars, fvars, searchReq, searchOut, lvars>>

InitWait ==
    /\ db \in [SKUS -> {pr \in SearchProducts : pr.active /\ pr.price = 10}]
    /\ sess = EmptyMap
    /\ syncPc = "idle"
    /\ processed = <<>>
    /\ syncRetries = 0
    /\ syncRuns = 0
    /\ syncErr = ""
    /\ jobs = [j \in JobIds |-> NoJob]
    /\ lost = 0
    /\ collection = TRUE
    /\ points \in SearchIndexes
    /\ sweepPc = "idle"
    /\ db_skus = {}
    /\ qdrant_skus = {}
    /\ stale = {}
    /\ sweeps = 0
    /\ searchReq \in {r \in Requests : /\ r.filters = EmptyMap
                                       /\ r.skip = 0
                                       /\ r.row_order = <<"A", "B">>}
    /\ searchOut = NoOutcome
    /\ searchWait = NoWait
    /\ NoFrontend
    /\ NoSharing

NextWait ==
    \/ SearchEnter
    \/ EmbedReturns
    \/ QdrantReturns
    \/ WaitTick

SpecWait == InitWait /\ [][NextWait]_vars

\* Embedding tasks over a catalog whose products have changed since the index
\* was written: the index, when it exists, holds the vectors of both products
\* as they were at price 10 in category 1.
InitUpsert ==
    /\ db \in [SKUS -> {pr \in SearchProducts : pr.active}]
    /\ sess = EmptyMap
    /\ syncPc = "idle"
    /\ processed = <<>>
    /\ syncRetries = 0
    /\ syncRuns = 0
    /\ syncErr = ""
    /\ jobs = [j \in JobIds |-> NoJob]
    /\ lost = 0
    /\ collection \in BOOLEAN
    /\ points = IF collection THEN UNION IndexOver(SKUS) ELSE {}
    /\ sweepPc = "idle"
    /\ db_skus = {}
    /\ qdrant_skus = {}
    /\ stale = {}
    /\ sweeps = 0
    /\ searchReq = NoRequest
    /\ searchOut = NoOutcome
    /\ searchWait = NoWait
    /\ NoFrontend
    /\ NoSharing

NextUpsert ==
    \/ \E sku \in SKUS : JobTrigger(sku)
    \/ \E j \in JobIds : JobStep(j)

SpecUpsert == InitUpsert /\ [][NextUpsert]_vars

\* ------------------------------------------------- list share protocol
Sessions == {"session-1", "session-2", "session-3"}

ShareCodes == {"K1", "K2"}

\* The life of a share code, in clock ticks.
ShareTtl == 2

Quantities == {1, 2}

\* generate_share_code: a share record for the list, expiring a fixed time
\* after its generation.
generate_share_code(cs, code, list_id, t) ==
    [c \in DOMAIN cs \cup {code} |->
       IF c = code THEN [list |-> list_id, expires_at |-> t + ShareTtl] ELSE cs[c]]

\* The code's expiry timestamp has passed.
CodeExpired(cs, code, t) == t > cs[code].expires_at

CopyItems(items, d) == items

\* The items of a clone: the same SKUs and quantities, each price-at-add
\* taken from the catalog price of the moment.
CloneItems(items, d) ==
    [s \in DOMAIN items |-> [quantity |-> items[s].quantity, price_at_add |-> d[s].price]]

NewListId(ls) == Cardinality(DOMAIN ls) + 1

SyncIgnoringExpiry(ls, cs, t, d, code, target) ==
    IF code \notin DOMAIN cs
    THEN [status |-> "ShareCodeNotFound", lists |-> ls, codes |-> cs, list |-> 0]
    ELSE [status |-> "ok",
          lists |-> [l \in DOMAIN ls \cup {NewListId(ls)} |->
                       IF l \in DOMAIN ls THEN ls[l]
                       ELSE [owner |-> target,
                             items |-> CloneItems(ls[cs[code].list].items, d)]],
          codes |-> cs,
          list |-> NewListId(ls)]

SyncConsumingCode(ls, cs, t, d, code, target) ==
    IF code \notin DOMAIN cs
    THEN [status |-> "ShareCodeNotFound", lists |-> ls, codes |-> cs, list |-> 0]
    ELSE IF CodeExpired(cs, code, t)
    THEN [status |-> "ShareCodeExpired", lists |-> ls, codes |-> cs, list |-> 0]
    ELSE [status |-> "ok",
          lists |-> [l \in DOMAIN ls \cup {NewListId(ls)} |->
                       IF l \in DOMAIN ls THEN ls[l]
                       ELSE [owner |-> target,
                             items |-> CloneItems(ls[cs[code].list].items, d)]],
          codes |-> [c \in DOMAIN cs |-> IF c = code THEN [cs[c] EXCEPT !.expires_at = 0]
                                         ELSE cs[c]],
          list |-> NewListId(ls)]

\* clone_list_to_session: the code must exist and be unexpired; then a new
\* list owned by the target session, with the source list's items as they are
\* now.  The source list and the share record are read, not written.
clone_list_to_session(ls, cs, t, d, code, target) ==
    IF code \notin DOMAIN cs
    THEN [status |-> "ShareCodeNotFound", lists |-> ls, codes |-> cs, list |-> 0]
    ELSE IF CodeExpired(cs, code, t)
    THEN [status |-> "ShareCodeExpired", lists |-> ls, codes |-> cs, list |-> 0]
    ELSE [status |-> "ok",
          lists |-> [l \in DOMAIN ls \cup {NewListId(ls)} |->
                       IF l \in DOMAIN ls THEN ls[l]
                       ELSE [owner |-> target,
                             items |-> CloneItems(ls[cs[code].list].items, d)]],
          codes |-> cs,
          list |-> NewListId(ls)]

RECURSIVE SumOf(_, _)
SumOf(f, S) ==
    IF S = {} THEN 0
    ELSE LET s == CHOOSE x \in S : TRUE IN f[s] + SumOf(f, S \ {s})

\* GET /lists/{id}: the list as the API returns it, each item with its
\* quantity, its price-at-add and the product as the catalog holds it now.
ListDetail(ls, l, d) ==
    [items |-> [s \in DOMAIN ls[l].items |->
                  [quantity |-> ls[l].items[s].quantity,
                   price_at_add |-> ls[l].items[s].price_at_add,
                   price |-> d[s].price]],
     total_items |-> SumOf([s \in DOMAIN ls[l].items |-> ls[l].items[s].quantity],
                           DOMAIN ls[l].items),
     unique_items |-> Cardinality(DOMAIN ls[l].items)]

\* sessionStore.setSession
setSession(sessionId, listId, t) ==
    [sessionId |-> sessionId, listId |-> listId, lastActive |-> t,
     showContinuePrompt |-> FALSE]

\* sessionStore.clearSession
clearSession(s) == [s EXCEPT !.sessionId = "", !.listId = 0, !.showContinuePrompt = FALSE]

\* POST /lists/{id}/share
shareList ==
    \E l \in DOMAIN lists : \E c \in ShareCodes \ DOMAIN codes :
        /\ codes' = generate_share_code(codes, c, l, now)
        /\ UNCHANGED <<pvars, jvars, qvars, svars, fvars, searchReq, searchOut, searchWait,
                       lists, now, syncOut, client>>

\* SyncPage.syncList: POST /lists/sync/{code}, sent under the device's session
\* when it has one; on success the device takes the synced list, puts it into
\* its session if it has one, and goes to the list page; on any error it
\* shows its banner.
syncList ==
    \E code \in ShareCodes : \E target \in Sessions :
        LET out == clone_list_to_session(lists, codes, now, db, code, target)
        IN /\ session.sessionId # "" => target = session.sessionId
           /\ out.status = "ok" => Cardinality(DOMAIN lists) < MaxLists
           /\ lists' = out.lists
           /\ codes' = out.codes
           /\ syncOut' = [status |-> out.status, list |-> out.list, code |-> code,
                          at |-> now, target |-> target]
           /\ client' = IF out.status = "ok"
                        THEN [list |-> out.list, error |-> "", page |-> "list"]
                        ELSE [client EXCEPT
                                !.error = "Could not find a list with that code. Please try again."]
           /\ cart' = IF out.status = "ok" THEN ListDetail(out.lists, out.list, db) ELSE cart
           /\ session' = IF out.status = "ok" /\ session.sessionId # ""
                         THEN setSession(session.sessionId, out.list, now)
                         ELSE session
           /\ UNCHANGED <<pvars, jvars, qvars, svars, searchReq, searchOut, searchWait, now,
                          pending, searchStore, modal, scanner>>

\* Time passes.
ClockTick ==
    /\ now < MaxTime
    /\ now' = now + 1
    /\ UNCHANGED <<pvars, jvars, qvars, svars, fvars, searchReq, searchOut, searchWait,
                   lists, codes, syncOut, client>>

ListItems ==
    UNION {[S -> [quantity : Quantities, price_at_add : {10}]] :
             S \in (SUBSET SKUS) \ {{}}}

\* One list of session-1, made while every catalog price was 10; the catalog
\* as it is now, the price of A changed or not.
InitShare ==
    /\ db \in {d \in [SKUS -> Products] : d["B"].price = 10}
    /\ sess = EmptyMap
    /\ syncPc = "idle"
    /\ processed = <<>>
    /\ syncRetries = 0
    /\ syncRuns = 0
    /\ syncErr = ""
    /\ jobs = [j \in JobIds |-> NoJob]
    /\ lost = 0
    /\ collection = FALSE
    /\ points = {}
    /\ sweepPc = "idle"
    /\ db_skus = {}
    /\ qdrant_skus = {}
    /\ stale = {}
    /\ sweeps = 0
    /\ searchReq = NoRequest
    /\ searchOut = NoOutcome
    /\ searchWait = NoWait
    /\ NoFrontend
    /\ \E items \in ListItems : lists = [l \in {1} |-> [owner |-> "session-1", items |-> items]]
    /\ codes = EmptyMap
    /\ now = 0
    /\ syncOut = NoSyncOut
    /\ client = NoClient

NextShare ==
    \/ shareList
    \/ syncList
    \/ ClockTick

SpecShare == InitShare /\ [][NextShare]_vars

\* ------------------------------------------------- the kiosk's browser app
SESSION_TIMEOUT_MS == 5 * 60 * 1000

Minute == 60 * 1000

\* ListPage: the estimated total shown under the items.
totalValue(currentList) ==
    SumOf([s \in DOMAIN currentList.items |->
             currentList.items[s].price * currentList.items[s].quantity],
          DOMAIN currentList.items)

\* The list requests sent and not yet answered.
Awaited(p) == {i \in 1..Len(p) : p[i].state = "sent"}

isSessionExpired(s, t) == t - s.lastActive > SESSION_TIMEOUT_MS

\* The app is loaded (again): the persisted session survives, the list store
\* starts empty, and the mount effect either asks to continue an expired
\* session or fetches the session's list.
AppMount ==
    /\ Awaited(pending) = {}
    /\ IF session.sessionId # "" /\ session.listId # 0
       THEN IF isSessionExpired(session, now)
            THEN /\ session' = [session EXCEPT !.showContinuePrompt = TRUE]
                 /\ cart' = NoCart
                 /\ client' = NoClient
            ELSE /\ cart' = ListDetail(lists, session.listId, db)
                 /\ client' = [client EXCEPT !.list = session.listId]
                 /\ UNCHANGED session
       ELSE /\ cart' = NoCart
            /\ client' = NoClient
            /\ UNCHANGED session
    /\ UNCHANGED <<pvars, jvars, qvars, svars, searchReq, searchOut, searchWait,
                   lists, codes, now, syncOut, pending, searchStore, modal, scanner>>

\* A shopper's list on the kiosk, made while every catalog price was 10, and
\* the catalog feed arriving afterwards.
InitCart ==
    /\ db = [s \in SKUS |-> [name |-> "n1", price |-> 10, active |-> TRUE, cats |-> {1}]]
    /\ sess = EmptyMap
    /\ syncPc = "idle"
    /\ processed = <<>>
    /\ syncRetries = 0
    /\ syncRuns = 0
    /\ syncErr = ""
    /\ jobs = [j \in JobIds |-> NoJob]
    /\ lost = 0
    /\ collection = FALSE
    /\ points = {}
    /\ sweepPc = "idle"
    /\ db_skus = {}
    /\ qdrant_skus = {}
    /\ stale = {}
    /\ sweeps = 0
    /\ searchReq = NoRequest
    /\ searchOut = NoOutcome
    /\ searchWait = NoWait
    /\ \E items \in ListItems : lists = [l \in {1} |-> [owner |-> "session-1", items |-> items]]
    /\ codes = EmptyMap
    /\ now = 0
    /\ syncOut = NoSyncOut
    /\ session = [sessionId |-> "session-1", listId |-> 1, lastActive |-> 0,
                  showContinuePrompt |-> FALSE]
    /\ cart = ListDetail(lists, 1, db)
    /\ client = [list |-> 1, error |-> "", page |-> "list"]
    /\ pending = <<>>
    /\ searchStore = NoSearchStore
    /\ modal = NoModal
    /\ scanner = NoScanner

NextCart ==
    \/ SyncTrigger(MaxRaceRuns)
    \/ SyncStep
    \/ AppMount

SpecCart == InitCart /\ [][NextCart]_vars

\* Minutes of wall-clock time followed.
MaxIdle == 7

\* A minute passes with the app left alone; nothing in the app is scheduled
\* to run when time passes.
MinutePasses ==
    /\ now < MaxIdle * Minute
    /\ now' = now + Minute
    /\ UNCHANGED <<pvars, jvars, qvars, svars, fvars, searchReq, searchOut, searchWait,
                   lists, codes, syncOut, client>>

\* A click, key press or touch anywhere in the window.
handleActivity ==
    /\ session' = [session EXCEPT !.lastActive = now]
    /\ UNCHANGED <<pvars, jvars, qvars, svars, gvars, searchReq, searchOut, searchWait, lvars>>

\* SessionPrompt, Continue: the click is an interaction, the list of the
\* stored session is fetched and the prompt closed.
handleContinue ==
    /\ session.showContinuePrompt
    /\ Awaited(pending) = {}
    /\ IF session.listId # 0
       THEN /\ cart' = ListDetail(lists, session.listId, db)
            /\ client' = [client EXCEPT !.list = session.listId]
       ELSE UNCHANGED <<cart, client>>
    /\ session' = [session EXCEPT !.showContinuePrompt = FALSE, !.lastActive = now]
    /\ UNCHANGED <<pvars, jvars, qvars, svars, searchReq, searchOut, searchWait,
                   lists, codes, now, syncOut, pending, searchStore, modal, scanner>>

NextIdle ==
    \/ MinutePasses
    \/ handleActivity
    \/ AppMount
    \/ handleContinue

SpecIdle == InitCart /\ [][NextIdle]_vars

\* Share requests one modal is followed through.
MaxPosts == 2

\* generateShareCode up to its await: the spinner on, the error cleared, one
\* POST /lists/{id}/share sent.
generateShareCode(m) ==
    [m EXCEPT !.isLoading = TRUE, !.error = "", !.posts = @ + 1, !.inflight = @ + 1]

\* The list page opens the modal; its effect sends a request when no share
\* data is held.
ShareOpen ==
    /\ ~modal.isOpen
    /\ modal.shareData = "" => modal.posts < MaxPosts
    /\ modal' = IF modal.shareData = ""
                THEN generateShareCode([modal EXCEPT !.isOpen = TRUE])
                ELSE [modal EXCEPT !.isOpen = TRUE]
    /\ UNCHANGED <<pvars, jvars, qvars, svars, searchReq, searchOut, searchWait, lvars,
                   session, cart, pending, searchStore, scanner>>

ShareClose ==
    /\ modal.isOpen
    /\ modal' = [modal EXCEPT !.isOpen = FALSE]
    /\ UNCHANGED <<pvars, jvars, qvars, svars, searchReq, searchOut, searchWait, lvars,
                   session, cart, pending, searchStore, scanner>>

\* A share request is answered with a code for the list.
ShareSucceeds ==
    /\ modal.inflight > 0
    /\ \E c \in ShareCodes \ DOMAIN codes :
         /\ codes' = generate_share_code(codes, c, client.list, now)
         /\ modal' = [modal EXCEPT !.shareData = c, !.isLoading = FALSE, !.inflight = @ - 1]
    /\ UNCHANGED <<pvars, jvars, qvars, svars, searchReq, searchOut, searchWait,
                   lists, now, syncOut, client, session, cart, pending, searchStore, scanner>>

ShareFailsAndResends ==
    /\ modal.inflight > 0
    /\ modal.posts < MaxPosts
    /\ modal' = [modal EXCEPT !.error = "Failed to generate share code",
                              !.isLoading = TRUE, !.posts = @ + 1]
    /\ UNCHANGED <<pvars, jvars, qvars, svars, searchReq, searchOut, searchWait, lvars,
                   session, cart, pending, searchStore, scanner>>

\* A share request fails: the error is shown, the spinner stopped.
ShareFails ==
    /\ modal.inflight > 0
    /\ modal' = [modal EXCEPT !.error = "Failed to generate share code",
                              !.isLoading = FALSE, !.inflight = @ - 1]
    /\ UNCHANGED <<pvars, jvars, qvars, svars, searchReq, searchOut, searchWait, lvars,
                   session, cart, pending, searchStore, scanner>>

\* The Try Again button, rendered with the error.
TryAgain ==
    /\ modal.isOpen
    /\ modal.error # ""
    /\ modal.posts < MaxPosts
    /\ modal' = generateShareCode([modal EXCEPT !.retries = @ + 1])
    /\ UNCHANGED <<pvars, jvars, qvars, svars, searchReq, searchOut, searchWait, lvars,
                   session, cart, pending, searchStore, scanner>>

NextModal ==
    \/ ShareOpen
    \/ ShareClose
    \/ ShareSucceeds
    \/ ShareFails
    \/ TryAgain

SpecModal == InitCart /\ [][NextModal]_vars

\* Searches one visit of the results page sends.
MaxSearches == 3

\* GET /search for the store's query and (empty) filters, first page.
SearchResponse(q) ==
    LET out == search_products(db, points, collection,
                               [query |-> q, filters |-> EmptyMap, skip |-> 0, limit |-> 2,
                                fault |-> "none", store_down |-> FALSE,
                                row_order |-> <<"A", "B">>])
    IN [held |-> TRUE, total |-> out.total, items |-> out.results]

\* SearchResultsPage: the URL's query changes; the effect stores it and calls
\* search, which sends nothing for a blank query.
SearchSubmit ==
    /\ searchStore.issued < MaxSearches
    /\ \E q \in Queries \ {""} :
         searchStore' =
           IF IsBlank(q) THEN [searchStore EXCEPT !.query = q]
           ELSE [searchStore EXCEPT
                   !.query = q, !.isLoading = TRUE, !.error = "",
                   !.issued = @ + 1, !.latest = q,
                   !.inflight = @ \cup {[seq |-> searchStore.issued + 1, query |-> q]}]
    /\ UNCHANGED <<pvars, jvars, qvars, svars, searchReq, searchOut, searchWait, lvars,
                   session, cart, pending, modal, scanner>>

\* The response of one search in flight arrives and is stored.
SearchArrives ==
    /\ \E r \in searchStore.inflight :
         searchStore' = [searchStore EXCEPT
                           !.results = SearchResponse(r.query), !.isLoading = FALSE,
                           !.inflight = @ \ {r}]
    /\ UNCHANGED <<pvars, jvars, qvars, svars, searchReq, searchOut, searchWait, lvars,
                   session, cart, pending, modal, scanner>>

\* One search in flight fails.
SearchFails ==
    /\ \E r \in searchStore.inflight :
         searchStore' = [searchStore EXCEPT
                           !.error = "Search failed", !.isLoading = FALSE,
                           !.inflight = @ \ {r}]
    /\ UNCHANGED <<pvars, jvars, qvars, svars, searchReq, searchOut, searchWait, lvars,
                   session, cart, pending, modal, scanner>>

NextTyping ==
    \/ SearchSubmit
    \/ SearchArrives
    \/ SearchFails

SpecTyping == InitCart /\ [][NextTyping]_vars

\* List requests one shopper is followed through.
MaxOps == 2

\* POST /lists/{id}/items: a new item takes its price-at-add from the catalog
\* price of the moment; an item already on the list gains the quantity.
add_item(ls, l, sku, quantity, d) ==
    [ls EXCEPT ![l].items =
       [s \in DOMAIN ls[l].items \cup {sku} |->
          IF s # sku THEN ls[l].items[s]
          ELSE IF s \in DOMAIN ls[l].items
          THEN [ls[l].items[s] EXCEPT !.quantity = @ + quantity]
          ELSE [quantity |-> quantity, price_at_add |-> d[s].price]]]

\* DELETE /lists/{id}/items/{sku}
remove_item(ls, l, sku) ==
    [ls EXCEPT ![l].items = [s \in DOMAIN ls[l].items \ {sku} |-> ls[l].items[s]]]

\* listStore.addItem up to its await: nothing without a current list.
addItem ==
    /\ client.list # 0
    /\ Len(pending) < MaxOps
    /\ \E productSku \in SKUS :
         pending' = Append(pending, [op |-> "add", sku |-> productSku, list |-> client.list,
                                     currentList |-> NoCart, state |-> "sent"])
    /\ UNCHANGED <<pvars, jvars, qvars, svars, searchReq, searchOut, searchWait, lvars,
                   session, cart, searchStore, modal, scanner>>

\* listStore.removeItem up to its await, for an item the page shows: the
\* current list is read here and kept for the update after the await.
removeItem ==
    /\ client.list # 0
    /\ Len(pending) < MaxOps
    /\ \E productSku \in DOMAIN cart.items :
         pending' = Append(pending, [op |-> "remove", sku |-> productSku, list |-> client.list,
                                     currentList |-> cart, state |-> "sent"])
    /\ UNCHANGED <<pvars, jvars, qvars, svars, searchReq, searchOut, searchWait, lvars,
                   session, cart, searchStore, modal, scanner>>

\* The add is served and answered: the store takes the list the server
\* returned.
addItemReturns ==
    /\ \E i \in Awaited(pending) :
         /\ pending[i].op = "add"
         /\ lists' = add_item(lists, pending[i].list, pending[i].sku, 1, db)
         /\ cart' = ListDetail(lists', pending[i].list, db)
         /\ client' = [client EXCEPT !.list = pending[i].list]
         /\ pending' = [pending EXCEPT ![i].state = "ok"]
    /\ UNCHANGED <<pvars, jvars, qvars, svars, searchReq, searchOut, searchWait,
                   codes, now, syncOut, session, searchStore, modal, scanner>>

\* The remove is served and answered: the store takes the list it had read
\* before the await, without the item, both counters one less.
removeItemReturns ==
    /\ \E i \in Awaited(pending) :
         /\ pending[i].op = "remove"
         /\ pending[i].sku \in DOMAIN lists[pending[i].list].items
         /\ lists' = remove_item(lists, pending[i].list, pending[i].sku)
         /\ cart' = [items |-> [s \in DOMAIN pending[i].currentList.items \ {pending[i].sku} |->
                                  pending[i].currentList.items[s]],
                     total_items |-> pending[i].currentList.total_items - 1,
                     unique_items |-> pending[i].currentList.unique_items - 1]
         /\ client' = [client EXCEPT !.list = pending[i].list]
         /\ pending' = [pending EXCEPT ![i].state = "ok"]
    /\ UNCHANGED <<pvars, jvars, qvars, svars, searchReq, searchOut, searchWait,
                   codes, now, syncOut, session, searchStore, modal, scanner>>

\* A list request fails (the item is gone, the network is down): the store
\* keeps its list.
listRequestFails ==
    /\ \E i \in Awaited(pending) : pending' = [pending EXCEPT ![i].state = "failed"]
    /\ UNCHANGED <<pvars, jvars, qvars, svars, searchReq, searchOut, searchWait, lvars,
                   session, cart, searchStore, modal, scanner>>

NextList ==
    \/ addItem
    \/ removeItem
    \/ addItemReturns
    \/ removeItemReturns
    \/ listRequestFails

SpecList == InitCart /\ [][NextList]_vars

\* Scanners one visit of the scan page makes.
MaxCams == 2

\* Stop calls awaited at once when a code is decoded.
MaxStops == 2

\* stopScanner up to its await: nothing without a reference; otherwise stop()
\* is called on the referenced scanner.  A running scanner stops; one not
\* running refuses the call, except that one still starting may be cancelled.
stopScanner(sc, cancel) ==
    IF sc.ref = 0 THEN sc
    ELSE [sc EXCEPT !.stops = @ + 1,
                    !.cams[sc.ref] = IF @ = "running" \/ (@ = "starting" /\ cancel)
                                     THEN "stopped" ELSE @]

\* isActive becomes true: the effect runs startScanner, which makes a scanner,
\* stores it in the reference and awaits its start.
ScannerActivate ==
    /\ ~scanner.isActive
    /\ Len(scanner.cams) < MaxCams
    /\ scanner' = [scanner EXCEPT !.isActive = TRUE,
                                  !.cams = Append(@, "starting"),
                                  !.ref = Len(scanner.cams) + 1]
    /\ UNCHANGED <<pvars, jvars, qvars, svars, searchReq, searchOut, searchWait, lvars,
                   session, cart, pending, searchStore, modal>>

\* isActive becomes false: the effect's cleanup calls stopScanner, and so does
\* the effect run that follows it.
ScannerDeactivate ==
    /\ scanner.isActive
    /\ \E c1 \in BOOLEAN : \E c2 \in BOOLEAN :
         scanner' = stopScanner(stopScanner([scanner EXCEPT !.isActive = FALSE], c1), c2)
    /\ UNCHANGED <<pvars, jvars, qvars, svars, searchReq, searchOut, searchWait, lvars,
                   session, cart, pending, searchStore, modal>>

\* The start of a scanner ends: the camera runs, or access was refused.
StartSettles ==
    /\ \E i \in 1..Len(scanner.cams) : \E granted \in BOOLEAN :
         /\ scanner.cams[i] = "starting"
         /\ scanner' = [scanner EXCEPT !.cams[i] = IF granted THEN "running" ELSE "failed"]
    /\ UNCHANGED <<pvars, jvars, qvars, svars, searchReq, searchOut, searchWait, lvars,
                   session, cart, pending, searchStore, modal>>

\* A stopScanner call goes on after its await, stop() having resolved or
\* thrown: the reference, whatever it holds by now, is set to null.
StopSettles ==
    /\ scanner.stops > 0
    /\ scanner' = [scanner EXCEPT !.stops = @ - 1, !.ref = 0]
    /\ UNCHANGED <<pvars, jvars, qvars, svars, searchReq, searchOut, searchWait, lvars,
                   session, cart, pending, searchStore, modal>>

\* A running scanner decodes a code: onScan, then stopScanner.
ScannerDecodes ==
    /\ \E i \in 1..Len(scanner.cams) : scanner.cams[i] = "running"
    /\ scanner.stops < MaxStops
    /\ \E cancel \in BOOLEAN : scanner' = stopScanner(scanner, cancel)
    /\ UNCHANGED <<pvars, jvars, qvars, svars, searchReq, searchOut, searchWait, lvars,
                   session, cart, pending, searchStore, modal>>

NextScan ==
    \/ ScannerActivate
    \/ ScannerDeactivate
    \/ StartSettles
    \/ StopSettles
    \/ ScannerDecodes

SpecScan == InitCart /\ [][NextScan]_vars

\* POST /lists: a new, empty list owned by the session.
create_list(ls, owner) ==
    [l \in DOMAIN ls \cup {NewListId(ls)} |->
       IF l \in DOMAIN ls THEN ls[l] ELSE [owner |-> owner, items |-> EmptyMap]]

CreateRequest(op) ==
    [op |-> op, sku |-> "", list |-> 0, currentList |-> NoCart, state |-> "sent"]

\* FloatingCart, Start Cart, shown without a session or without a list:
\* createList up to its await.
handleStartCart ==
    /\ session.sessionId = "" \/ client.list = 0
    /\ Len(pending) < MaxOps
    /\ pending' = Append(pending, CreateRequest("cart"))
    /\ UNCHANGED <<pvars, jvars, qvars, svars, searchReq, searchOut, searchWait, lvars,
                   session, cart, searchStore, modal, scanner>>

\* SessionPrompt, Start Fresh: the session and the list are dropped, then
\* createList up to its await.
handleStartFresh ==
    /\ session.showContinuePrompt
    /\ Len(pending) < MaxOps
    /\ session' = clearSession(session)
    /\ cart' = NoCart
    /\ client' = [client EXCEPT !.list = 0]
    /\ pending' = Append(pending, CreateRequest("fresh"))
    /\ UNCHANGED <<pvars, jvars, qvars, svars, searchReq, searchOut, searchWait,
                   lists, codes, now, syncOut, searchStore, modal, scanner>>

\* A list was created for a new session: the store takes the list and the
\* handler that asked for it puts the session and the list into the session
\* store.
createListReturns ==
    /\ Cardinality(DOMAIN lists) < MaxLists
    /\ \E i \in Awaited(pending) :
       \E sid \in Sessions \ {lists[l].owner : l \in DOMAIN lists} :
         /\ pending[i].op \in {"cart", "fresh"}
         /\ lists' = create_list(lists, sid)
         /\ cart' = ListDetail(lists', NewListId(lists), db)
         /\ client' = [client EXCEPT !.list = NewListId(lists)]
         /\ session' = setSession(sid, NewListId(lists), now)
         /\ pending' = [pending EXCEPT ![i].state = "ok"]
    /\ UNCHANGED <<pvars, jvars, qvars, svars, searchReq, searchOut, searchWait,
                   codes, now, syncOut, searchStore, modal, scanner>>

\* createList failed: the handler logs it; Start Fresh closes its prompt.
createListFails ==
    /\ \E i \in Awaited(pending) :
         /\ pending[i].op \in {"cart", "fresh"}
         /\ session' = IF pending[i].op = "fresh"
                       THEN [session EXCEPT !.showContinuePrompt = FALSE]
                       ELSE session
         /\ pending' = [pending EXCEPT ![i].state = "failed"]
    /\ UNCHANGED <<pvars, jvars, qvars, svars, searchReq, searchOut, searchWait, lvars,
                   cart, searchStore, modal, scanner>>

\* ListPage, Clear List, shown with a list.
handleClearList ==
    /\ client.list # 0
    /\ session' = clearSession(session)
    /\ UNCHANGED <<pvars, jvars, qvars, svars, searchReq, searchOut, searchWait, lvars,
                   gvars>>

\* A kiosk on which session-1 made a list: either loaded with nothing stored,
\* or loaded again six minutes after that session's last interaction, asking
\* whether to continue.
InitSession ==
    /\ db = [s \in SKUS |-> [name |-> "n1", price |-> 10, active |-> TRUE, cats |-> {1}]]
    /\ sess = EmptyMap
    /\ syncPc = "idle"
    /\ processed = <<>>
    /\ syncRetries = 0
    /\ syncRuns = 0
    /\ syncErr = ""
    /\ jobs = [j \in JobIds |-> NoJob]
    /\ lost = 0
    /\ collection = FALSE
    /\ points = {}
    /\ sweepPc = "idle"
    /\ db_skus = {}
    /\ qdrant_skus = {}
    /\ stale = {}
    /\ sweeps = 0
    /\ searchReq = NoRequest
    /\ searchOut = NoOutcome
    /\ searchWait = NoWait
    /\ \E items \in ListItems : lists = [l \in {1} |-> [owner |-> "session-1", items |-> items]]
    /\ codes \in {EmptyMap, [c \in {"K1"} |-> [list |-> 1, expires_at |-> 6 * Minute + ShareTtl]]}
    /\ syncOut = NoSyncOut
    /\ \/ /\ now = 0
          /\ session = NoSession
       \/ /\ now = 6 * Minute
          /\ session = [sessionId |-> "session-1", listId |-> 1, lastActive |-> 0,
                        showContinuePrompt |-> TRUE]
    /\ cart = NoCart
    /\ client = NoClient
    /\ pending = <<>>
    /\ searchStore = NoSearchStore
    /\ modal = NoModal
    /\ scanner = NoScanner

NextSession ==
    \/ handleStartCart
    \/ handleStartFresh
    \/ createListReturns
    \/ createListFails
    \/ handleClearList
    \/ syncList

SpecSession == InitSession /\ [][NextSession]_vars

\* ---------------------------------------------------------------- claims
IndexedSkus == get_all_skus(points)

SemanticPathFailed == searchReq.fault # "none" \/ ~collection

\* C1: when the semantic path fails (embedding or vector index), search
\* surfaces no vector-path error: with the primary store up it returns the
\* keyword matches of the primary store, and the only error it can surface is
\* SearchUnavailable.
C1_FallbackOnSemanticFailure ==
    (searchOut.status # "none" /\ ~IsBlank(searchReq.query) /\ SemanticPathFailed)
    => /\ searchOut.error \in {"", "SearchUnavailable"}
       /\ ~searchReq.store_down =>
            /\ searchOut.status = "ok"
            /\ searchOut.path = "keyword"
            /\ searchOut.total =
                 Cardinality({s \in ActiveSkus(db) :
                                /\ NameHolds(db[s].name, searchReq.query)
                                /\ PassesFilter(PayloadOf(db[s]), searchReq.filters)})
            /\ \A i \in 1..Len(searchOut.results) :
                 LET s == searchOut.results[i][1]
                 IN /\ s \in ActiveSkus(db)
                    /\ NameHolds(db[s].name, searchReq.query)
                    /\ PassesFilter(PayloadOf(db[s]), searchReq.filters)

C1_Witness ==
    /\ searchReq.fault = "VectorIndexUnavailable"
    /\ searchOut.status = "ok"
    /\ searchOut.path = "keyword"
    /\ Len(searchOut.results) > 0

\* C2: no step removes the vector of a SKU that is active in the primary
\* store.
C2_SweepNeverDeletesActive ==
    [][\A s \in SKUS :
         (s \in IndexedSkus /\ s \notin get_all_skus(points')) => s \notin ActiveSkus(db')]_vars

\* C3: a sync run that meets a record without a required key leaves the
\* committed primary store and the task queue as they were; nothing is
\* written while the run is still reading records.
C3_BadRecordWritesNothing ==
    [][(syncPc = "upserting" /\ syncPc' # "queuing") => (db' = db /\ jobs' = jobs)]_vars

C3_Witness ==
    /\ syncErr = "KeyError"
    /\ syncPc = "queued"
    /\ Len(processed) >= 1
    /\ db # EmptyMap

\* C4: at the step that queues the embedding task of a SKU, the product is
\* committed in the primary store and the run holds no uncommitted write.
C4_EnqueueAfterCommit ==
    [][\A j \in JobIds :
         (jobs'[j] # jobs[j] /\ jobs'[j].st = "queued" /\ jobs'[j].retries = 0)
         => (jobs'[j].sku \in DOMAIN db /\ sess = EmptyMap)]_vars

C4_Witness ==
    /\ syncPc = "done"
    /\ \E j \in JobIds : jobs[j].st = "queued" /\ jobs[j].sku \in DOMAIN db

\* C5: no call of ensure_collection throws, however the workers interleave.
C5_EnsureCollectionNeverThrows ==
    \A j \in JobIds : jobs[j].err # "CollectionExists"

\* C6: with nothing else writing, a finished sweep leaves exactly the vectors
\* whose SKU has a row in the primary store, and no step of it adds or alters
\* a vector.
C6_SweepRemovesExactlyOrphans ==
    /\ [](sweepPc = "done" => IndexedSkus = qdrant_skus \cap DOMAIN db)
    /\ [][points' \subseteq points]_vars

C6_Witness ==
    /\ sweepPc = "done"
    /\ DOMAIN db = {"A", "B"}
    /\ qdrant_skus = {"A", "B", "C"}
    /\ IndexedSkus = {"A", "B"}

PointsOf(pts, sku) == {p \in pts : p.payload.sku = sku}

AlreadyWritten(pts, sku, product) ==
    \E p \in pts :
      /\ p.payload.sku = sku
      /\ p.payload.name = product.name
      /\ p.payload.price = product.price
      /\ p.payload.category_ids = product.cats
      /\ p.vector = generate_embedding(
                      get_product_text(product, {CategoryNameOf(c) : c \in product.cats}))

\* C8: an upsert for a product whose vector an earlier delivery already
\* wrote leaves the index as it is, with one point for the SKU.
C8_RedeliveryIdempotent ==
    [][\A j \in JobIds :
         (/\ jobs[j].st = "upsert"
          /\ jobs'[j].st = "ack"
          /\ AlreadyWritten(points, jobs[j].sku, jobs[j].fetched[1]))
         => (points' = points /\ Cardinality(PointsOf(points', jobs[j].sku)) = 1)]_vars

C8_Witness ==
    \E j \in JobIds :
      /\ jobs[j].lost_at = "ack"
      /\ jobs[j].st = "ack"
      /\ Cardinality(PointsOf(points, jobs[j].sku)) = 1

\* C9: a task is retried at most EMBED_MAX_RETRIES times; it fails only once
\* they are used up, and a failed task is not run again.
C9_RetriesBounded ==
    [][\A j \in JobIds :
         /\ jobs'[j].retries <= EMBED_MAX_RETRIES
         /\ (jobs[j].st # "failed" /\ jobs'[j].st = "failed")
              => jobs[j].retries = EMBED_MAX_RETRIES
         /\ jobs[j].st = "failed"
              => (jobs'[j] = jobs[j] \/ jobs'[j] = NewJob(jobs'[j].sku))]_vars

C9_Witness ==
    \E j \in JobIds :
      /\ jobs[j].st = "failed"
      /\ jobs[j].retries = EMBED_MAX_RETRIES
      /\ jobs[j].err = "EmbeddingUnavailable"

\* C10: each retry of a task waits longer than the one before it.
C10_BackoffGrows ==
    \A j \in JobIds :
      \A i \in 1..(Len(jobs[j].delays) - 1) : jobs[j].delays[i + 1] > jobs[j].delays[i]

\* C11: once the catalog has stopped changing, from some point on every
\* active product has exactly one vector in the index.
C11_EveryActiveProductGetsVector ==
    <>[](\A s \in ActiveSkus(db) : Cardinality(PointsOf(points, s)) = 1)

\* The hits Qdrant returned for the request being served.
HitsOfRequest ==
    qdrant_search(points, generate_embedding(<<searchReq.query>>),
                  searchReq.limit + searchReq.skip, searchReq.filters)

LiveHits ==
    {i \in 1..Len(HitsOfRequest) :
       /\ HitsOfRequest[i][1] \in DOMAIN db
       /\ db[HitsOfRequest[i][1]].active}

\* C12: a hit whose product is absent from or inactive in the primary store is
\* left out of the semantic results without an error, and the total counts
\* only the hits that were kept.
C12_StaleHitsDropped ==
    searchOut.path = "semantic"
    => /\ searchOut.status = "ok"
       /\ searchOut.error = ""
       /\ searchOut.total = Cardinality(LiveHits)
       /\ \A i \in 1..Len(searchOut.results) :
            \E k \in LiveHits : HitsOfRequest[k][1] = searchOut.results[i][1]

C12_Witness ==
    /\ searchOut.path = "semantic"
    /\ Len(searchOut.results) = 1
    /\ Len(HitsOfRequest) = 2
    /\ searchOut.total = 1

\* C13: every product a successful semantic search returns satisfies the
\* caller's price and category filters.
C13_ResultsSatisfyFilters ==
    searchOut.path = "semantic"
    => \A i \in 1..Len(searchOut.results) :
         PassesFilter(PayloadOf(db[searchOut.results[i][1]]), searchReq.filters)

\* C14: the same search called again over an unchanged catalog returns the
\* same products in the same order.
C14_RepeatedSearchSameOrder ==
    [][(searchOut.path = "semantic" /\ searchOut'.path = "semantic")
       => searchOut'.results = searchOut.results]_vars

\* C15: a search call is not still inside the semantic path once the
\* timeout of that path has passed.
C15_SemanticPathTimesOut ==
    searchWait.step \in {"embedding", "qdrant"} => searchWait.elapsed <= SemanticTimeout

\* C16: a run whose feed holds no product list goes to Failed (or to a retry
\* that will fail again), never on to a completed run.
C16_UnknownShapeFails ==
    [][syncPc = "commit_empty" => syncPc' \in {"commit_empty", "failed", "queued"}]_vars

\* The point update_product_embeddings writes for a product row.
PointFor(sku, product) ==
    [id |-> sku_to_point_id(sku),
     vector |-> generate_embedding(
                  get_product_text(product, {CategoryNameOf(c) : c \in product.cats})),
     payload |-> [name |-> product.name, price |-> product.price,
                  category_ids |-> product.cats, sku |-> sku]]

\* C17: the index never holds two points for one SKU, and after an upsert the
\* one point of the SKU is the point of that upsert, the points of the other
\* SKUs being left as they were.
C17_OnePointPerSkuLatestWins ==
    /\ [](\A s \in SKUS : Cardinality(PointsOf(points, s)) <= 1)
    /\ [][\A j \in JobIds :
            (jobs[j].st = "upsert" /\ jobs'[j].st = "ack")
            => /\ PointsOf(points', jobs[j].sku) = {PointFor(jobs[j].sku, jobs[j].fetched[1])}
               /\ \A s \in SKUS \ {jobs[j].sku} : PointsOf(points', s) = PointsOf(points, s)]_vars

C17_Witness ==
    \E j \in JobIds :
      /\ jobs[j].st = "ack"
      /\ \E p \in points : p.payload.sku = jobs[j].sku /\ p.payload.price = 12
      /\ Cardinality(points) = 2

\* C18: a sync of a code whose expiry has passed gives ShareCodeExpired and
\* no list; a list is made only by a sync of an unexpired code; the record of
\* an expired code stays.
C18_ExpiredCodeFails ==
    /\ []((syncOut.status # "none" /\ syncOut.code \in DOMAIN codes
           /\ syncOut.at > codes[syncOut.code].expires_at)
          => (syncOut.status = "ShareCodeExpired" /\ syncOut.list = 0))
    /\ [][lists' # lists
          => /\ syncOut'.status = "ok"
             /\ syncOut'.at <= codes[syncOut'.code].expires_at
             /\ DOMAIN lists' = DOMAIN lists \cup {syncOut'.list}]_vars

C18_Witness ==
    /\ syncOut.status = "ShareCodeExpired"
    /\ syncOut.code \in DOMAIN codes
    /\ DOMAIN lists = {1}
    /\ client.list = 0
    /\ client.error # ""

\* C19: the list a sync makes is a new list of the target session with the
\* SKUs and quantities of the source list, each price-at-add being the
\* catalog price and not the source item's.
C19_CloneTakesCatalogPrice ==
    syncOut.status = "ok"
    => LET src == lists[codes[syncOut.code].list]
           new == lists[syncOut.list]
       IN /\ syncOut.list # codes[syncOut.code].list
          /\ new.owner = syncOut.target
          /\ DOMAIN new.items = DOMAIN src.items
          /\ \A s \in DOMAIN new.items :
               /\ new.items[s].quantity = src.items[s].quantity
               /\ new.items[s].price_at_add = db[s].price

C19_Witness ==
    /\ syncOut.status = "ok"
    /\ syncOut.target = "session-2"
    /\ codes[syncOut.code].list = 1
    /\ "A" \in DOMAIN lists[1].items
    /\ lists[1].items["A"].price_at_add = 10
    /\ db["A"].price = 12
    /\ lists[syncOut.list].items["A"].price_at_add = 12

\* C20: no step changes a list that exists or a share record that exists, so
\* a code that was synced can be synced again until it expires.
C20_SyncLeavesSourceAndCode ==
    [][/\ \A l \in DOMAIN lists : l \in DOMAIN lists' /\ lists'[l] = lists[l]
       /\ \A c \in DOMAIN codes : c \in DOMAIN codes' /\ codes'[c] = codes[c]]_vars

C20_Witness ==
    /\ syncOut.status = "ok"
    /\ DOMAIN lists = {1, 2, 3}
    /\ lists[2].owner = "session-2"
    /\ lists[3].owner = "session-3"
    /\ Cardinality(DOMAIN codes) = 1

\* C21: the price-at-add of a list item never changes after insertion, so
\* the total shown for a list whose items did not change stays the same when
\* catalog prices change.
C21_TotalOfUnchangedListStays ==
    [][/\ \A l \in DOMAIN lists : \A s \in DOMAIN lists[l].items :
            lists'[l].items[s].price_at_add = lists[l].items[s].price_at_add
       /\ (client.list # 0 /\ client'.list = client.list /\ lists' = lists)
            => totalValue(cart') = totalValue(cart)]_vars

\* C22: a search whose query is empty or only whitespace returns an empty
\* result set with total 0, whatever the filters, the catalog, the index and
\* the state of the stores; it never returns catalog products.
C22_BlankQueryReturnsNothing ==
    (searchOut.status # "none" /\ IsBlank(searchReq.query))
    => /\ searchOut.status = "ok"
       /\ searchOut.results = <<>>
       /\ searchOut.total = 0

\* A whitespace-only query with a filter, over a catalog whose products are
\* all indexed and with both stores up, has returned nothing.
C22_Witness ==
    /\ searchOut.status = "ok"
    /\ searchReq.query = " "
    /\ DOMAIN searchReq.filters = {"category_id"}
    /\ searchReq.fault = "none"
    /\ ~searchReq.store_down
    /\ collection
    /\ IndexedSkus = SKUS
    /\ searchOut.results = <<>>
    /\ searchOut.total = 0

\* C23: once more than 5 minutes have passed since the last user
\* interaction, the session has been cleared: no session id and no list id
\* are held.
C23_IdleSessionCleared ==
    (now - session.lastActive > SESSION_TIMEOUT_MS)
    => (session.sessionId = "" /\ session.listId = 0)

\* C24: opening the share modal with no share code held sends one generate
\* request; a failing request shows the error and sends nothing; a press of
\* Try Again sends exactly one request; and nothing else sends a request.
C24_OneRequestPerOpenOrTryAgain ==
    [][/\ (~modal.isOpen /\ modal'.isOpen /\ modal.shareData = "")
            => modal'.posts = modal.posts + 1
       /\ (modal'.inflight < modal.inflight /\ modal'.shareData = modal.shareData)
            => (modal'.error # "" /\ modal'.posts = modal.posts)
       /\ modal'.retries # modal.retries => modal'.posts = modal.posts + 1
       /\ modal'.posts # modal.posts
            => \/ (~modal.isOpen /\ modal'.isOpen /\ modal.shareData = "")
               \/ (modal.error # "" /\ modal'.retries = modal.retries + 1)]_vars

\* The modal was opened, its request failed, Try Again was pressed once and
\* the second request brought the code.
C24_Witness ==
    /\ modal.isOpen
    /\ modal.posts = 2
    /\ modal.retries = 1
    /\ modal.inflight = 0
    /\ modal.shareData # ""
    /\ modal.error = ""

\* C25: for a fixed query, filter set and catalog, the semantic path returns
\* the same total for every page and page size asked for.
C25_TotalSameOnEveryPage ==
    [][(searchOut.path = "semantic" /\ searchOut'.path = "semantic")
       => searchOut'.total = searchOut.total]_vars

\* C26: once no search is in flight and none of them failed, the results
\* held in the search store are those of the most recently issued search.
C26_LatestSearchWins ==
    (searchStore.issued > 0 /\ searchStore.inflight = {} /\ searchStore.error = "")
    => searchStore.results = SearchResponse(searchStore.latest)

\* C27: once an addItem and a removeItem, or two removeItems, issued while
\* the other was in flight have all succeeded, currentList holds every added
\* item and none of the removed items.
C27_ConcurrentOpsKeepEffects ==
    (Len(pending) = 2 /\ \A i \in 1..2 : pending[i].state = "ok")
    => \A i \in 1..2 :
         /\ (pending[i].op = "add" /\ pending[3 - i].sku # pending[i].sku)
              => pending[i].sku \in DOMAIN cart.items
         /\ (pending[i].op = "remove" /\ pending[3 - i].sku # pending[i].sku)
              => pending[i].sku \notin DOMAIN cart.items

CountersAgree(l) ==
    /\ l.unique_items = Cardinality(DOMAIN l.items)
    /\ l.total_items = SumOf([s \in DOMAIN l.items |-> l.items[s].quantity], DOMAIN l.items)

\* C29: a removeItem that succeeds on a currentList whose counters agreed
\* with its items leaves them agreeing: unique_items is the number of items
\* left and total_items the sum of their quantities.
C29_CountersAgreeAfterRemove ==
    [][\A i \in 1..Len(pending) :
         (/\ pending[i].op = "remove"
          /\ pending[i].state = "sent"
          /\ pending'[i].state = "ok"
          /\ CountersAgree(pending[i].currentList))
         => CountersAgree(cart')]_vars

\* C28: once the scanner has been deactivated and every pending start and
\* stop call has finished, no scanner is left running.
C28_DeactivatedScannerEndsStopped ==
    (/\ ~scanner.isActive
     /\ scanner.stops = 0
     /\ \A i \in 1..Len(scanner.cams) : scanner.cams[i] # "starting")
    => \A i \in 1..Len(scanner.cams) : scanner.cams[i] # "running"

\* C30: whenever no request is in flight, the client holds a current list
\* only if it holds a session id.
C30_ListOnlyWithSession ==
    Awaited(pending) = {} => (client.list # 0 => session.sessionId # "")

====
